---- MODULE Spec2Model ----
(***************************************************************************)
(* A model of heightmap-gen (src/src/main.rs): multi-octave Perlin noise   *)
(* accumulated into a scalar field, normalised and quantised to bytes.     *)
(*                                                                         *)
(* f32 values are modelled exactly.  A finite f32 is a pair <<m, e>> that  *)
(* stands for m * 2^e, with m = 0 (and e = 0) for zero and                 *)
(* 2^23 <= |m| < 2^24 otherwise.  Every arithmetic operator rounds its     *)
(* exact result to the nearest such value, ties to even, as IEEE-754       *)
(* binary32 does.  Infinities, NaN, subnormals and the sign of zero are    *)
(* outside the modelled domain; the inputs are chosen so that no           *)
(* operation leaves the normal range.                                      *)
(***************************************************************************)
EXTENDS Integers, Sequences, FiniteSets, TLC

(***************************************************************************)
(* binary32 arithmetic                                                     *)
(***************************************************************************)
Abs(n) == IF n < 0 THEN -n ELSE n

Sgn(n) == IF n < 0 THEN -1 ELSE IF n > 0 THEN 1 ELSE 0

RECURSIVE BitLen(_)
\* Number of significant bits of n >= 0.
BitLen(n) == IF n = 0 THEN 0 ELSE 1 + BitLen(n \div 2)

FZero == <<0, 0>>

\* n shifted right by d >= 0 bits, the bits shifted out OR-ed into the lowest
\* bit kept (a sticky bit).  n >= 0.
ShiftRightJam(n, d) ==
    IF d = 0 THEN n
    ELSE IF d >= 31 THEN (IF n = 0 THEN 0 ELSE 1)
    ELSE LET q == n \div (2^d)
             r == n % (2^d)
         IN  IF r = 0 THEN q ELSE IF q % 2 = 1 THEN q ELSE q + 1

\* The binary32 nearest to M * 2^e, ties to even.  |M| < 2^31; when M has
\* more than 26 bits its lowest bit may be a sticky bit.
RoundPack(M, e) ==
    LET n == Abs(M)
        L == BitLen(n)
    IN  IF n = 0 THEN FZero
        ELSE IF L <= 24 THEN <<M * 2^(24 - L), e - (24 - L)>>
        ELSE LET k    == L - 24
                 q    == n \div (2^k)
                 r    == n % (2^k)
                 half == 2^(k - 1)
                 up   == r > half \/ (r = half /\ q % 2 = 1)
                 q1   == IF up THEN q + 1 ELSE q
             IN  IF q1 = 2^24 THEN <<Sgn(M) * 2^23, e + k + 1>>
                 ELSE <<Sgn(M) * q1, e + k>>

\* i as f32, for an integer |i| < 2^31.
IntToF(i) == RoundPack(i, 0)

\* k * 2^x as f32, for an integer |k| < 2^31.
Dyadic(k, x) == RoundPack(k, x)

FNeg(a) == <<-a[1], a[2]>>

\* a + b
FAdd(a, b) ==
    IF a[1] = 0 THEN b
    ELSE IF b[1] = 0 THEN a
    ELSE LET hi == IF a[2] >= b[2] THEN a ELSE b
             lo == IF a[2] >= b[2] THEN b ELSE a
             d  == hi[2] - lo[2]
             A  == hi[1] * 64
             B  == Sgn(lo[1]) * ShiftRightJam(Abs(lo[1]) * 64, d)
         IN  RoundPack(A + B, hi[2] - 6)

\* a - b
FSub(a, b) == FAdd(a, FNeg(b))

\* a * b.  The 48-bit product of the significands is formed from 12-bit
\* halves and reduced to 30 bits with a sticky bit before rounding.
FMul(a, b) ==
    IF a[1] = 0 \/ b[1] = 0 THEN FZero
    ELSE LET ma   == Abs(a[1])
             mb   == Abs(b[1])
             ah   == ma \div 4096
             al   == ma % 4096
             bh   == mb \div 4096
             bl   == mb % 4096
             mid  == ah * bl + al * bh
             low0 == (mid % 4096) * 4096 + al * bl
             top  == ah * bh + (mid \div 4096) + (low0 \div 16777216)
             low  == low0 % 16777216
             T    == top * 64 + (low \div 262144)
             Tj   == IF low % 262144 = 0 THEN T
                     ELSE IF T % 2 = 1 THEN T ELSE T + 1
         IN  RoundPack(Sgn(a[1]) * Sgn(b[1]) * Tj, a[2] + b[2] + 18)

RECURSIVE DivBits(_, _, _, _)
\* Long division: n more quotient bits of r / d appended to q (r < d).
\* The result is <<quotient, remainder>>.
DivBits(q, r, d, n) ==
    IF n = 0 THEN <<q, r>>
    ELSE IF 2 * r >= d THEN DivBits(2 * q + 1, 2 * r - d, d, n - 1)
    ELSE DivBits(2 * q, 2 * r, d, n - 1)

\* a / b, b # 0.
FDiv(a, b) ==
    IF a[1] = 0 THEN FZero
    ELSE LET ma == Abs(a[1])
             mb == Abs(b[1])
             qr == DivBits(ma \div mb, ma % mb, mb, 27)
             Q  == IF qr[2] = 0 THEN qr[1]
                   ELSE IF qr[1] % 2 = 1 THEN qr[1] ELSE qr[1] + 1
         IN  RoundPack(Sgn(a[1]) * Sgn(b[1]) * Q, a[2] - b[2] - 27)

\* a < b
FLess(a, b) ==
    LET sa == Sgn(a[1])
        sb == Sgn(b[1])
    IN  IF sa # sb THEN sa < sb
        ELSE IF sa = 0 THEN FALSE
        ELSE IF a[2] # b[2] THEN (IF sa > 0 THEN a[2] < b[2] ELSE a[2] > b[2])
        ELSE a[1] < b[1]

\* f32::clamp(v, lo, hi)
FClamp(v, lo, hi) == IF FLess(v, lo) THEN lo ELSE IF FLess(hi, v) THEN hi ELSE v

\* f32::round: to the nearest integer, halves away from zero.  The result is
\* given as an integer (|v| < 2^31).
FRound(v) ==
    IF v[2] >= 0 THEN v[1] * 2^(v[2])
    ELSE IF -v[2] > 24 THEN 0
    ELSE LET k == -v[2]
             n == Abs(v[1])
             q == n \div (2^k)
             r == n % (2^k)
         IN  Sgn(v[1]) * (IF r >= 2^(k - 1) THEN q + 1 ELSE q)

\* `v as usize` for a float: truncation toward zero, negatives saturate at 0.
FToUsize(v) ==
    IF v[1] <= 0 THEN 0
    ELSE IF v[2] >= 0 THEN v[1] * 2^(v[2])
    ELSE IF -v[2] > 24 THEN 0
    ELSE v[1] \div (2^(-v[2]))

\* `n as u8` for the integer-valued float n: saturating.
AsU8(n) == IF n < 0 THEN 0 ELSE IF n > 255 THEN 255 ELSE n

(***************************************************************************)
(* Integer helpers (CommonNumExt)                                          *)
(***************************************************************************)
\* Rust's `/` and `%` on signed integers truncate toward zero.
TruncDiv(a, b) == Sgn(a) * Sgn(b) * (Abs(a) \div Abs(b))

TruncRem(a, b) == a - b * TruncDiv(a, b)

\* `a ^ b >= 0` on two's-complement integers: the sign bit of a ^ b is the
\* exclusive or of the two sign bits.
XorNonNegative(a, b) == (a < 0) = (b < 0)

\* A faulty signed div_ceil: the quotient is always raised.
div_ceil_signed_always_up(a, b) == TruncDiv(a, b) + 1

\* A faulty div_ceil: the quotient is never raised (floor division).
div_ceil_floor(a, b) == a \div b

\* div_ceil of the unsigned implementations (a >= 0, b > 0).
div_ceil(a, b) ==
    LET q == a \div b
        r == a % b
    IN  IF r # 0 THEN q + 1 ELSE q

\* div_ceil of the signed implementations (b # 0).
div_ceil_signed(a, b) ==
    LET q == TruncDiv(a, b)
        r == TruncRem(a, b)
    IN  IF XorNonNegative(a, b) /\ r # 0 THEN q + 1 ELSE q

(***************************************************************************)
(* Constants of the program                                                *)
(***************************************************************************)
\* ATTENUATION: f32 = 0.75
ATTENUATION == Dyadic(3, -2)

\* std::f32::consts::TAU = 6.2831855
TAU == <<13176795, -21>>

F1 == IntToF(1)

F2 == IntToF(2)

F3 == IntToF(3)

\* 127.5
F127_5 == Dyadic(255, -1)

(***************************************************************************)
(* sin and cos.  std leaves the precision of f32::sin_cos unspecified: the *)
(* build calls the sinf and cosf of the C library.  They are modelled as   *)
(* glibc computes them on x86_64 (sysdeps/ieee754/flt-32): the angle is    *)
(* widened to a double, reduced by a multiple of pi/2, a polynomial is     *)
(* evaluated in double arithmetic, each product and sum rounded to a       *)
(* double, and the result is rounded to f32.  The result is not always the *)
(* f32 nearest to the sine or cosine.                                      *)
(*                                                                         *)
(* A natural number is a sequence of limbs of LimbBits bits, the lowest    *)
(* first.  A double is <<s, m, e>>, the value s * m * 2^e, with s its sign *)
(* (0 for zero) and m a natural number of exactly 53 bits.  A value that   *)
(* is used more than once is passed on as an argument.                     *)
(***************************************************************************)
LimbBits == 14

LimbBase == 16384

\* Limb k of a, 0 past its end.
BLimb(a, k) == IF k >= 1 /\ k <= Len(a) THEN a[k] ELSE 0

BMaxLen(a, b) == IF Len(a) >= Len(b) THEN Len(a) ELSE Len(b)

RECURSIVE BCarryOut(_)
\* The limbs of the integer carry >= 0.
BCarryOut(carry) ==
    IF carry = 0 THEN <<>>
    ELSE <<carry % LimbBase>> \o BCarryOut(carry \div LimbBase)

BFromInt(n) == BCarryOut(n)

RECURSIVE BAddFrom(_, _, _, _)
BAddFrom(a, b, k, carry) ==
    IF k > BMaxLen(a, b) THEN BCarryOut(carry)
    ELSE LET v == BLimb(a, k) + BLimb(b, k) + carry
         IN  <<v % LimbBase>> \o BAddFrom(a, b, k + 1, v \div LimbBase)

\* a + b
BAdd(a, b) == BAddFrom(a, b, 1, 0)

RECURSIVE BSubFrom(_, _, _, _)
BSubFrom(a, b, k, carry) ==
    IF k > BMaxLen(a, b) THEN <<>>
    ELSE LET v == BLimb(a, k) - BLimb(b, k) + carry
         IN  <<v % LimbBase>> \o BSubFrom(a, b, k + 1, v \div LimbBase)

\* a - b, a >= b.
BSub(a, b) == BSubFrom(a, b, 1, 0)

RECURSIVE BCarryFrom(_, _, _)
\* The limbs of the number whose limb k (and up) is the sum cols[k], not yet
\* below LimbBase, plus a carry.
BCarryFrom(cols, k, carry) ==
    IF k > Len(cols) THEN BCarryOut(carry)
    ELSE <<(cols[k] + carry) % LimbBase>>
         \o BCarryFrom(cols, k + 1, (cols[k] + carry) \div LimbBase)

\* The product of the four-limb numbers a1 .. a4 and b1 .. b4, column by column.
BMulLimbs(a1, a2, a3, a4, b1, b2, b3, b4) ==
    BCarryFrom(<<a1 * b1,
                 a1 * b2 + a2 * b1,
                 a1 * b3 + a2 * b2 + a3 * b1,
                 a1 * b4 + a2 * b3 + a3 * b2 + a4 * b1,
                 a2 * b4 + a3 * b3 + a4 * b2,
                 a3 * b4 + a4 * b3,
                 a4 * b4>>, 1, 0)

\* a * b, for a and b of at most four limbs.
BMul(a, b) ==
    BMulLimbs(BLimb(a, 1), BLimb(a, 2), BLimb(a, 3), BLimb(a, 4),
              BLimb(b, 1), BLimb(b, 2), BLimb(b, 3), BLimb(b, 4))

RECURSIVE BTopFrom(_, _)
BTopFrom(a, k) == IF k = 0 \/ a[k] # 0 THEN k ELSE BTopFrom(a, k - 1)

\* The index of the highest limb of a that is not 0; 0 when a = 0.
BTop(a) == BTopFrom(a, Len(a))

\* The number of significant bits of a.
BBitLen(a) ==
    LET k == BTop(a)
    IN  IF k = 0 THEN 0 ELSE LimbBits * (k - 1) + BitLen(a[k])

RECURSIVE BLessFrom(_, _, _)
BLessFrom(a, b, k) ==
    IF k = 0 THEN FALSE
    ELSE IF BLimb(a, k) # BLimb(b, k) THEN BLimb(a, k) < BLimb(b, k)
    ELSE BLessFrom(a, b, k - 1)

\* a < b
BLess(a, b) == BLessFrom(a, b, BMaxLen(a, b))

RECURSIVE BZeros(_)
BZeros(n) == IF n = 0 THEN <<>> ELSE <<0>> \o BZeros(n - 1)

RECURSIVE BShlFrom(_, _, _, _)
BShlFrom(a, r, k, carry) ==
    IF k > Len(a) THEN BCarryOut(carry)
    ELSE LET v == a[k] * 2^r + carry
         IN  <<v % LimbBase>> \o BShlFrom(a, r, k + 1, v \div LimbBase)

\* a * 2^n
BShl(a, n) == BZeros(n \div LimbBits) \o BShlFrom(a, n % LimbBits, 1, 0)

RECURSIVE BShrFrom(_, _, _, _)
BShrFrom(a, q, r, k) ==
    IF k + q > Len(a) THEN <<>>
    ELSE <<(BLimb(a, k + q) \div (2^r))
           + (BLimb(a, k + q + 1) % (2^r)) * 2^(LimbBits - r)>>
         \o BShrFrom(a, q, r, k + 1)

\* a \div 2^n
BShr(a, n) == BShrFrom(a, n \div LimbBits, n % LimbBits, 1)

\* Whether a % 2^n is not 0.
BLow(a, n) ==
    \/ \E k \in 1 .. (n \div LimbBits) : BLimb(a, k) # 0
    \/ BLimb(a, (n \div LimbBits) + 1) % (2^(n % LimbBits)) # 0

RECURSIVE BToIntFrom(_, _)
BToIntFrom(a, k) == IF k = 0 THEN 0 ELSE BToIntFrom(a, k - 1) + a[k] * 2^(LimbBits * (k - 1))

\* a as an integer, a < 2^31.
BToInt(a) == BToIntFrom(a, BTop(a))

\* q when it still has `bits` bits, halved when the rounding carried into
\* one bit more; with the exponent, as <<q, k>>.
BRenorm(q, k, bits) == IF BBitLen(q) > bits THEN <<BShr(q, 1), k + 1>> ELSE <<q, k>>

\* Q2 \div 2 rounded to nearest, ties to even: Q2 carries the rounding bit as
\* its lowest bit, and sticky tells whether any lower bit was set.
BNearestEven(Q2, q, sticky) ==
    IF BLimb(Q2, 1) % 2 = 1 /\ (sticky \/ BLimb(q, 1) % 2 = 1) THEN BAdd(q, <<1>>) ELSE q

\* M \div 2^k rounded to nearest, ties to even (k >= 1).
BRoundCut(M, Q2, k) == BNearestEven(Q2, BShr(Q2, 1), BLow(M, k - 1))

\* BRound for M of L significant bits.
BRoundLen(M, bits, L) ==
    IF L <= bits THEN <<BShl(M, bits - L), -(bits - L)>>
    ELSE BRenorm(BRoundCut(M, BShr(M, L - bits - 1), L - bits), L - bits, bits)

\* <<q, k>> with q * 2^k the number M # 0 rounded to `bits` significant bits,
\* to nearest, ties to even; q has exactly `bits` bits.
BRound(M, bits) == BRoundLen(M, bits, BBitLen(M))

DZero == <<0, <<>>, 0>>

\* The double of sign s, significand qk[1] and exponent e + qk[2].
DPack(s, qk, e) == <<s, qk[1], e + qk[2]>>

\* The double nearest to s * M * 2^e.
DRound(s, M, e) == IF BTop(M) = 0 THEN DZero ELSE DPack(s, BRound(M, 53), e)

\* a * b in double arithmetic
DMul(a, b) ==
    IF a[1] = 0 \/ b[1] = 0 THEN DZero
    ELSE DRound(a[1] * b[1], BMul(a[2], b[2]), a[3] + b[3])

DNeg(a) == <<-a[1], a[2], a[3]>>

\* a * s for a sign s
DScale(a, s) == <<a[1] * s, a[2], a[3]>>

\* sh * H * 2^e + sl * L * 2^e in double arithmetic
DAddAligned(sh, H, sl, L, e) ==
    DRound(IF sh # sl /\ BLess(H, L) THEN sl ELSE sh,
           IF sh = sl THEN BAdd(H, L) ELSE IF BLess(H, L) THEN BSub(L, H) ELSE BSub(H, L),
           e)

\* hi + lo in double arithmetic, the exponent of hi not below that of lo
DAddOrdered(hi, lo) ==
    IF hi[3] - lo[3] >= 56 THEN hi
    ELSE DAddAligned(hi[1], BShl(hi[2], hi[3] - lo[3]), lo[1], lo[2], lo[3])

\* a + b in double arithmetic
DAdd(a, b) ==
    IF a[1] = 0 THEN b
    ELSE IF b[1] = 0 THEN a
    ELSE DAddOrdered(IF a[3] >= b[3] THEN a ELSE b, IF a[3] >= b[3] THEN b ELSE a)

\* (double) f for an f32 f
FToD(f) == IF f[1] = 0 THEN DZero ELSE DRound(Sgn(f[1]), BFromInt(Abs(f[1])), f[2])

\* The f32 of sign s, significand qk[1] and exponent e + qk[2].
FPack(s, qk, e) == <<s * BToInt(qk[1]), e + qk[2]>>

\* (float) a for a double a
DToF(a) == IF a[1] = 0 THEN FZero ELSE FPack(a[1], BRound(a[2], 24), a[3])

\* (int32_t) a for a double 0 <= a < 2^31
DToInt(a) ==
    IF a[1] = 0 THEN 0
    ELSE IF a[3] < 0 THEN BToInt(BShr(a[2], -a[3]))
    ELSE BToInt(BShl(a[2], a[3]))

\* (double) n for an integer n
IntToD(n) == IF n = 0 THEN DZero ELSE DRound(Sgn(n), BFromInt(Abs(n)), 0)

\* __sincosf_table: 2/pi * 2^24 and pi/2
hpi_inv == <<1, <<2179, 14119, 13062, 1303>>, -29>>

hpi == <<1, <<11544, 4368, 8117, 1608>>, -52>>

\* __sincosf_table: the cosine polynomial c0 .. c4
cos_coeff ==
    << <<1, <<0, 0, 0, 1024>>, -52>>,
       <<-1, <<8732, 13361, 16383, 2047>>, -54>>,
       <<1, <<3865, 1050, 5438, 1365>>, -57>>,
       <<-1, <<13725, 8808, 2174, 1456>>, -62>>,
       <<1, <<14531, 2543, 13360, 1636>>, -68>> >>

\* __sincosf_table: the sine polynomial s1 .. s3
sin_coeff ==
    << <<-1, <<9731, 9814, 5445, 1365>>, -55>>,
       <<1, <<3012, 5260, 1888, 1092>>, -59>>,
       <<-1, <<3876, 7635, 3763, 1637>>, -65>> >>

\* __sincosf_table: sign[n & 3], the sign of the sine in quadrant n
quadrant_sign(n) == IF n % 4 \in {0, 3} THEN 1 ELSE -1

\* sinf_poly for even n, x3 = x * x2 given: x + x^3 s1 + x^7 (s2 + x^2 s3).
sinf_poly_sin3(x, x2, x3) ==
    LET s1 == DAdd(sin_coeff[2], DMul(x2, sin_coeff[3]))
        x7 == DMul(x3, x2)
        s  == DAdd(x, DMul(x3, sin_coeff[1]))
    IN  DAdd(s, DMul(x7, s1))

\* sinf_poly for even n, x2 = x * x.
sinf_poly_sin(x, x2) == sinf_poly_sin3(x, x2, DMul(x, x2))

\* sinf_poly for odd n, x4 = x2 * x2 given:
\* c0 + x^2 c1 + x^4 c2 + x^6 (c3 + x^2 c4).
sinf_poly_cos4(x2, x4, cs) ==
    LET c2 == DAdd(DScale(cos_coeff[4], cs), DMul(x2, DScale(cos_coeff[5], cs)))
        c1 == DAdd(DScale(cos_coeff[1], cs), DMul(x2, DScale(cos_coeff[2], cs)))
        x6 == DMul(x4, x2)
        c  == DAdd(c1, DMul(x4, DScale(cos_coeff[3], cs)))
    IN  DAdd(c, DMul(x6, c2))

\* sinf_poly for odd n; the coefficients are those of the table (cs = 1), or
\* negated (cs = -1).
sinf_poly_cos(x2, cs) == sinf_poly_cos4(x2, DMul(x2, x2), cs)

\* sinf_poly(x, x2, p, n): p is the second table (negated cosine) when n & 2.
sinf_poly(x, x2, n) ==
    IF n % 2 = 0 THEN sinf_poly_sin(x, x2)
    ELSE sinf_poly_cos(x2, IF n % 4 >= 2 THEN -1 ELSE 1)

\* <<x - n * pi/2, n>>
reduce_by(x, n) == <<DAdd(x, DNeg(DMul(IntToD(n), hpi))), n>>

\* reduce_fast: <<x - n * pi/2, n>> with n the multiple of pi/2 nearest to x.
reduce_fast(x) == reduce_by(x, (DToInt(DMul(x, hpi_inv)) + 8388608) \div 16777216)

\* sinf_poly(x * s, x * x, p, n + q) at the reduced angle xn = <<x, n>>, with
\* s the sign of quadrant n + q: q = 0 gives the sine, q = 1 the cosine.
poly_reduced(xn, q) ==
    sinf_poly(DScale(xn[1], quadrant_sign(xn[2] + q)), DMul(xn[1], xn[1]), xn[2] + q)

\* sinf_poly(x, x * x, p, n) for an angle x below 3/4, which is not reduced.
poly_small(x, n) == sinf_poly(x, DMul(x, x), n)

\* sinf(y) for an f32 0 <= y < 120
sinf(y) ==
    IF FLess(y, Dyadic(3, -2))
    THEN (IF FLess(y, Dyadic(1, -12)) THEN y ELSE DToF(poly_small(FToD(y), 0)))
    ELSE DToF(poly_reduced(reduce_fast(FToD(y)), 0))

\* cosf(y) for an f32 0 <= y < 120
cosf(y) ==
    IF FLess(y, Dyadic(3, -2))
    THEN (IF FLess(y, Dyadic(1, -12)) THEN F1 ELSE DToF(poly_small(FToD(y), 1)))
    ELSE DToF(poly_reduced(reduce_fast(FToD(y)), 1))

\* f32::sin_cos(theta) = (theta.sin(), theta.cos())
sin_cos(theta) == <<sinf(theta), cosf(theta)>>

(***************************************************************************)
(* The random source.  Mwc256XXA64 comes from the crate pcg_mwc, whose      *)
(* code is not part of the repository.  What the generator is required to  *)
(* be is a deterministic, repeatable stream of samples fixed by the seed,  *)
(* with no reseeding and no entropy from outside; it is modelled as that   *)
(* and nothing more: a congruential generator of period 2^16, seeded by    *)
(* one of a few seeds, advanced once per gen(), whose state gives the      *)
(* 32-bit word next_u32() returns.  The words are not those of             *)
(* Mwc256XXA64.  A u32 word is a pair <<hi, lo>> of 16-bit halves, the     *)
(* word hi * 2^16 + lo.  The conversion of the word to an f32 is that of   *)
(* rand's Standard distribution.                                           *)
(***************************************************************************)
\* Mwc256XXA64::new(k1, k2): the state is fixed by the seed.
RngNew(s) == (4099 * s + 1) % 65536

\* The state after one gen().
RngAdvance(state) == (25173 * state + 13849) % 65536

\* The word next_u32() returns when it leaves the generator in `state`.
next_u32(state) ==
    <<(20077 * state + 12345) % 65536, (31161 * state + 22136) % 65536>>

\* gen::<f32>() from the word drawn: (word >> 8) as f32 * 2^-24, the 24 high
\* bits of the word as a fraction in [0, 1).
RngOutput(word) == Dyadic(word[1] * 256 + (word[2] \div 256), -24)

(***************************************************************************)
(* The Perlin sampler                                                      *)
(***************************************************************************)
\* Whether [ix, iy] is an index of the grid.
InGrid(grid, ix, iy) == ix \in DOMAIN grid /\ iy \in DOMAIN grid[ix]

dot_grid_gradient(grid, ix, iy, x, y) ==
    LET gradient == grid[ix][iy]
        dx == FSub(x, IntToF(ix))
        dy == FSub(y, IntToF(iy))
    IN  FAdd(FMul(dx, gradient[1]), FMul(dy, gradient[2]))

\* (a1 - a0) * (3. - w * 2.) * w * w + a0
interpolate(a0, a1, wgt) ==
    FAdd(FMul(FMul(FMul(FSub(a1, a0), FSub(F3, FMul(wgt, F2))), wgt), wgt), a0)

\* The four lattice corners perlin reads: <<x0, y0, x1, y1>>.
Corners(x, y) ==
    LET x0 == FToUsize(x)
        y0 == FToUsize(y)
    IN  <<x0, y0, x0 + 1, y0 + 1>>

perlin(src, x, y) ==
    LET c   == Corners(x, y)
        x0  == c[1]
        y0  == c[2]
        x1  == c[3]
        y1  == c[4]
        sx  == FSub(x, IntToF(x0))
        sy  == FSub(y, IntToF(y0))
        n0  == dot_grid_gradient(src, x0, y0, x, y)
        n1  == dot_grid_gradient(src, x1, y0, x, y)
        ix0 == interpolate(n0, n1, sx)
        m0  == dot_grid_gradient(src, x0, y1, x, y)
        m1  == dot_grid_gradient(src, x1, y1, x, y)
        ix1 == interpolate(m0, m1, sx)
    IN  interpolate(ix0, ix1, sy)

\* Whether perlin(src, x, y) indexes the grid out of bounds (a panic).
PerlinPanics(src, x, y) ==
    LET c == Corners(x, y)
    IN  ~(InGrid(src, c[1], c[2]) /\ InGrid(src, c[3], c[4]))

\* A faulty coordinate: the pixel centre, (n + 0.5) / cell_size.
GridCoord_centered(n, cs) == FDiv(FAdd(IntToF(n), Dyadic(1, -1)), IntToF(cs))

\* i as f32 / cell_size as f32
GridCoord(n, cs) == FDiv(IntToF(n), IntToF(cs))

\* A faulty quantizer: the cast truncates, round() is forgotten.
Quantize_truncating(v) ==
    AsU8(FToUsize(FAdd(FMul(FClamp(v, FNeg(F1), F1), F127_5), F127_5)))

\* (v.clamp(-1., 1.) * 127.5 + 127.5).round() as u8
Quantize(v) == AsU8(FRound(FAdd(FMul(FClamp(v, FNeg(F1), F1), F127_5), F127_5)))

(***************************************************************************)
(* Bounds of the model                                                     *)
(***************************************************************************)
MaxHeight == 3

MaxWidth == 3

MaxOctaves == 3

MaxSeed == 3

(***************************************************************************)
(* State                                                                   *)
(***************************************************************************)
VARIABLES
    HEIGHT, WIDTH, OCTAVES,  \* the configuration (constants of a build)
    seed,                    \* the seed given to the generator
    pc,                      \* the position in main
    levels_left,             \* what (0..OCTAVES).rev() has left to yield
    level, cell_size, h, w,  \* locals of the octave loop
    i, j,                    \* the indices of the loop nest being run
    rng, scale, scale_sum, res, vecs, buf,   \* the data of main
    draws,                   \* history: gen() calls made so far
    octave_draws,            \* history: gen() calls made in this octave
    lattice_draws,           \* history: per lattice point of this octave,
                             \* the draws (numbered within the octave) stored there
    contribs,                \* history: per cell, the `+=` made so far
    writes,                  \* history: per buffer position, the stores made
    octave_log,              \* history: <<level, cell_size, scale>> of each octave begun
    fn, args, ret            \* a call of one helper on its own

config == <<HEIGHT, WIDTH, OCTAVES, seed>>

control == <<pc, levels_left, level, cell_size, h, w, i, j>>

data == <<rng, scale, scale_sum, res, vecs, buf>>

history == <<draws, octave_draws, lattice_draws, contribs, writes, octave_log>>

helper == <<fn, args, ret>>

vars == <<config, control, data, history, helper>>

Rows == 0 .. (HEIGHT - 1)

Cols == 0 .. (WIDTH - 1)

\* Array2::from_elem([n, m], v)
from_elem(n, m, v) == [row \in 0 .. (n - 1) |-> [col \in 0 .. (m - 1) |-> v]]

\* A faulty loop nest: the row index is the inner one (column-major order).
NestStep_column_major(row, col, lastRow, lastCol) ==
    IF row < lastRow THEN <<row + 1, col, FALSE>>
    ELSE IF col < lastCol THEN <<0, col + 1, FALSE>>
    ELSE <<0, 0, TRUE>>

\* One step of `for row in 0..=lastRow { for col in 0..=lastCol`: the indices
\* of the next iteration, and whether the nest is finished.
NestStep(row, col, lastRow, lastCol) ==
    IF col < lastCol THEN <<row, col + 1, FALSE>>
    ELSE IF row < lastRow THEN <<row + 1, 0, FALSE>>
    ELSE <<0, 0, TRUE>>

\* A faulty level iterator: .rev() is forgotten, the levels ascend.
NextLevel_ascending(left) == OCTAVES - left

\* What (0..n).rev() yields when `left` of its values are left: left - 1.
NextLevel(left) == left - 1

\* No helper is being called on its own.
NoHelper == fn = "none" /\ args = <<>> /\ ret = <<>>

\* The state of main after lines 108-113.
Init ==
    /\ HEIGHT \in 1 .. MaxHeight
    /\ WIDTH \in 1 .. MaxWidth
    /\ OCTAVES \in 1 .. MaxOctaves
    /\ seed \in 0 .. MaxSeed
    /\ pc = "octave"
    /\ levels_left = OCTAVES
    /\ level = 0 /\ cell_size = 0 /\ h = 0 /\ w = 0
    /\ i = 0 /\ j = 0
    /\ rng = RngNew(seed)
    /\ scale = F1
    /\ scale_sum = FZero
    /\ res = from_elem(HEIGHT, WIDTH, FZero)
    /\ vecs = <<>>
    /\ buf = <<>>
    /\ draws = 0
    /\ octave_draws = 0
    /\ lattice_draws = <<>>
    /\ contribs = from_elem(HEIGHT, WIDTH, 0)
    /\ writes = <<>>
    /\ octave_log = <<>>
    /\ NoHelper

\* for level in (0..OCTAVES).rev(): the next level, its grid allocated.
OctaveStart ==
    /\ pc = "octave"
    /\ levels_left > 0
    /\ levels_left' = levels_left - 1
    /\ level' = NextLevel(levels_left)
    /\ cell_size' = 2^(level')
    /\ h' = div_ceil(HEIGHT, cell_size')
    /\ w' = div_ceil(WIDTH, cell_size')
    /\ vecs' = from_elem(h' + 1, w' + 1, <<FZero, FZero>>)
    /\ lattice_draws' = from_elem(h' + 1, w' + 1, <<>>)
    /\ octave_draws' = 0
    /\ octave_log' = Append(octave_log, <<level', cell_size', scale>>)
    /\ i' = 0 /\ j' = 0
    /\ pc' = "grid"
    /\ UNCHANGED <<config, rng, scale, scale_sum, res, buf, draws, contribs, writes, helper>>

\* vecs[[i, j]] = (rng.gen::<f32>() * TAU).sin_cos(), and the step of
\* for i in 0..=h { for j in 0..=w.
BuildGrid ==
    /\ pc = "grid"
    /\ rng' = RngAdvance(rng)
    /\ vecs' = [vecs EXCEPT ![i][j] = sin_cos(FMul(RngOutput(next_u32(rng')), TAU))]
    /\ draws' = draws + 1
    /\ octave_draws' = octave_draws + 1
    /\ lattice_draws' = [lattice_draws EXCEPT ![i][j] = Append(@, octave_draws)]
    /\ LET step == NestStep(i, j, h, w)
       IN  i' = step[1] /\ j' = step[2] /\ pc' = IF step[3] THEN "sample" ELSE pc
    /\ UNCHANGED <<config, levels_left, level, cell_size, h, w, scale, scale_sum,
                   res, buf, contribs, writes, octave_log, helper>>

\* res[[i, j]] += perlin(&vecs, x, y) * scale, and the step of
\* for i in 0..HEIGHT { for j in 0..WIDTH.  An index out of the grid panics.
SamplePixel ==
    /\ pc = "sample"
    /\ LET x == GridCoord(i, cell_size)
           y == GridCoord(j, cell_size)
       IN  IF PerlinPanics(vecs, x, y)
           THEN /\ pc' = "panic"
                /\ UNCHANGED <<i, j, res, contribs>>
           ELSE /\ res' = [res EXCEPT ![i][j] = FAdd(@, FMul(perlin(vecs, x, y), scale))]
                /\ contribs' = [contribs EXCEPT ![i][j] = @ + 1]
                /\ LET step == NestStep(i, j, HEIGHT - 1, WIDTH - 1)
                   IN  /\ i' = step[1] /\ j' = step[2]
                       /\ pc' = IF step[3] THEN "octave_end" ELSE pc
    /\ UNCHANGED <<config, levels_left, level, cell_size, h, w, rng, scale, scale_sum,
                   vecs, buf, draws, octave_draws, lattice_draws, writes, octave_log, helper>>

\* A faulty end of octave: the amplitude is attenuated before it is summed.
OctaveEnd_attenuate_first ==
    /\ pc = "octave_end"
    /\ scale' = FMul(scale, ATTENUATION)
    /\ scale_sum' = FAdd(scale_sum, scale')
    /\ pc' = "octave"
    /\ UNCHANGED <<config, levels_left, level, cell_size, h, w, i, j, rng, res, vecs,
                   buf, history, helper>>

\* scale_sum += scale; scale *= ATTENUATION; and back to the head of the loop.
OctaveEnd ==
    /\ pc = "octave_end"
    /\ scale_sum' = FAdd(scale_sum, scale)
    /\ scale' = FMul(scale, ATTENUATION)
    /\ pc' = "octave"
    /\ UNCHANGED <<config, levels_left, level, cell_size, h, w, i, j, rng, res, vecs,
                   buf, history, helper>>

\* The octave loop is exhausted: on to the normalisation loop.
OctavesDone ==
    /\ pc = "octave"
    /\ levels_left = 0
    /\ i' = 0 /\ j' = 0
    /\ pc' = "normalize"
    /\ UNCHANGED <<config, levels_left, level, cell_size, h, w, data, history, helper>>

\* res[[i, j]] /= scale_sum, and the step of the loop nest; after the last
\* cell, let mut buf = vec![0u8; HEIGHT * WIDTH].
Normalize ==
    /\ pc = "normalize"
    /\ res' = [res EXCEPT ![i][j] = FDiv(@, scale_sum)]
    /\ LET step == NestStep(i, j, HEIGHT - 1, WIDTH - 1)
       IN  /\ i' = step[1] /\ j' = step[2]
           /\ IF step[3]
              THEN /\ pc' = "quantize"
                   /\ buf' = [n \in 0 .. (HEIGHT * WIDTH - 1) |-> 0]
                   /\ writes' = [n \in 0 .. (HEIGHT * WIDTH - 1) |-> 0]
              ELSE /\ pc' = pc
                   /\ UNCHANGED <<buf, writes>>
    /\ UNCHANGED <<config, levels_left, level, cell_size, h, w, rng, scale, scale_sum,
                   vecs, draws, octave_draws, lattice_draws, contribs, octave_log, helper>>

\* A faulty buffer index: the stride is the height.
BufIndex_height_stride(row, col) == row * HEIGHT + col

\* The position of cell (row, col) in the buffer.
BufIndex(row, col) == row * WIDTH + col

\* buf[i * WIDTH + j] = quantised res[[i, j]], and the step of the loop nest.
\* An index out of the buffer panics.
QuantizeCell ==
    /\ pc = "quantize"
    /\ IF BufIndex(i, j) \notin DOMAIN writes
       THEN /\ pc' = "panic"
            /\ UNCHANGED <<i, j, buf, writes>>
       ELSE /\ buf' = [buf EXCEPT ![BufIndex(i, j)] = Quantize(res[i][j])]
            /\ writes' = [writes EXCEPT ![BufIndex(i, j)] = @ + 1]
            /\ LET step == NestStep(i, j, HEIGHT - 1, WIDTH - 1)
               IN  /\ i' = step[1] /\ j' = step[2]
                   /\ pc' = IF step[3] THEN "done" ELSE pc
    /\ UNCHANGED <<config, levels_left, level, cell_size, h, w, rng, scale, scale_sum,
                   res, vecs, draws, octave_draws, lattice_draws, contribs, octave_log, helper>>

Next ==
    \/ OctaveStart
    \/ BuildGrid
    \/ SamplePixel
    \/ OctaveEnd
    \/ OctavesDone
    \/ Normalize
    \/ QuantizeCell

Spec == Init /\ [][Next]_vars

(***************************************************************************)
(* The helpers called on their own: the inputs are drawn from bounded      *)
(* sets, main is not running, and one action applies the helper.           *)
(***************************************************************************)
MaxDividend == 12

MaxDivisor == 6

\* Quantizer inputs are n / 64 for |n| <= MaxQuantInput.
MaxQuantInput == 160

\* Interpolation operands are k and k * 2^-25 for |k| <= MaxInterp.
MaxInterp == 3

\* main is not running.
IdleMain ==
    /\ HEIGHT = 1 /\ WIDTH = 1 /\ OCTAVES = 1 /\ seed = 0
    /\ pc = "idle"
    /\ levels_left = 0 /\ level = 0 /\ cell_size = 0 /\ h = 0 /\ w = 0
    /\ i = 0 /\ j = 0
    /\ rng = 0 /\ scale = FZero /\ scale_sum = FZero
    /\ res = <<>> /\ vecs = <<>> /\ buf = <<>>
    /\ draws = 0 /\ octave_draws = 0
    /\ lattice_draws = <<>> /\ contribs = <<>> /\ writes = <<>> /\ octave_log = <<>>

NonZero(n) == (-n .. n) \ {0}

InitDivCeil ==
    /\ IdleMain
    /\ ret = <<>>
    /\ fn \in {"div_ceil", "div_ceil_signed"}
    /\ args \in IF fn = "div_ceil"
                THEN (0 .. MaxDividend) \X (1 .. MaxDivisor)
                ELSE (-MaxDividend .. MaxDividend) \X NonZero(MaxDivisor)

\* self.div_ceil(b), in the unsigned or the signed implementation.
CallDivCeil ==
    /\ fn \in {"div_ceil", "div_ceil_signed"}
    /\ ret = <<>>
    /\ ret' = IF fn = "div_ceil"
              THEN <<div_ceil(args[1], args[2])>>
              ELSE <<div_ceil_signed(args[1], args[2])>>
    /\ UNCHANGED <<config, control, data, history, fn, args>>

SpecDivCeil == InitDivCeil /\ [][CallDivCeil]_vars

QuantInputs == {Dyadic(n, -6) : n \in -MaxQuantInput .. MaxQuantInput}

InitQuantize ==
    /\ IdleMain
    /\ ret = <<>>
    /\ fn = "quantize"
    /\ args \in {<<v>> : v \in QuantInputs}

\* The quantizer expression of line 142 applied to one value.
CallQuantize ==
    /\ fn = "quantize"
    /\ ret = <<>>
    /\ ret' = <<Quantize(args[1])>>
    /\ UNCHANGED <<config, control, data, history, fn, args>>

SpecQuantize == InitQuantize /\ [][CallQuantize]_vars

InterpValues == {Dyadic(k, x) : k \in -MaxInterp .. MaxInterp, x \in {-25, 0}}

InterpWeights == {FZero, Dyadic(1, -1), F1}

InitInterpolate ==
    /\ IdleMain
    /\ ret = <<>>
    /\ fn = "interpolate"
    /\ args \in InterpValues \X InterpValues \X InterpWeights

\* interpolate(a0, a1, w)
CallInterpolate ==
    /\ fn = "interpolate"
    /\ ret = <<>>
    /\ ret' = <<interpolate(args[1], args[2], args[3])>>
    /\ UNCHANGED <<config, control, data, history, fn, args>>

SpecInterpolate == InitInterpolate /\ [][CallInterpolate]_vars

(***************************************************************************)
(* Properties                                                              *)
(***************************************************************************)
\* n for the float v = n / 64.
SixtyFourths(v) ==
    IF v[2] + 6 >= 0 THEN v[1] * 2^(v[2] + 6) ELSE v[1] \div (2^(-(v[2] + 6)))

\* C3: for a >= 0 and b > 0, div_ceil(a, b) (unsigned and signed) is the
\* least integer q with q * b >= a.
CeilDivCorrect ==
    (fn \in {"div_ceil", "div_ceil_signed"} /\ ret # <<>> /\ args[1] >= 0 /\ args[2] > 0)
        => /\ ret[1] * args[2] >= args[1]
           /\ (ret[1] - 1) * args[2] < args[1]

\* C3 happens: a = b - 1 with b > 1 (the result is 1), in the signed
\* implementation.
CeilDivWitness ==
    /\ fn = "div_ceil_signed"
    /\ ret = <<1>>
    /\ args[2] > 1
    /\ args[1] = args[2] - 1

\* C4: the quantizer output is in 0..255; -1 gives 0, 0 gives 128, 1 gives
\* 255; values below -1 give 0 and values above 1 give 255; inside [-1, 1]
\* the output is v * 127.5 + 127.5 rounded to the nearest integer, halves up.
QuantizeBounds ==
    (fn = "quantize" /\ ret # <<>>)
        => LET v == args[1]
               n == SixtyFourths(v)
           IN  /\ ret[1] \in 0 .. 255
               /\ (v = FNeg(F1) => ret[1] = 0)
               /\ (v = FZero => ret[1] = 128)
               /\ (v = F1 => ret[1] = 255)
               /\ (n < -64 => ret[1] = 0)
               /\ (n > 64 => ret[1] = 255)
               /\ (n \in -64 .. 64 => ret[1] = (255 * (n + 64) + 64) \div 128)

\* C4 happens: the input 0.0 was quantized to 128.
QuantizeWitness == fn = "quantize" /\ args = <<FZero>> /\ ret = <<128>>

\* C5 as claimed: interpolate(a0, a1, 0) = a0 and interpolate(a0, a1, 1) = a1.
InterpolateEndpoints ==
    (fn = "interpolate" /\ ret # <<>>)
        => /\ (args[3] = FZero => ret[1] = args[1])
           /\ (args[3] = F1 => ret[1] = args[2])

\* Cell (row, col) comes before cell (i, j) in row-major order.
Before(row, col) == row < i \/ (row = i /\ col < j)

InOctave == pc \in {"grid", "sample", "octave_end"}

AfterOctaves == pc \in {"normalize", "quantize", "done"}

\* ATTENUATION^k exactly: 3^k / 4^k.
AttenuationPower(k) == Dyadic(3^k, -2 * k)

RECURSIVE GeometricNumerator(_)
\* 4^(n-1) times the sum of (3/4)^k for k in 0 .. n-1.
GeometricNumerator(n) == IF n = 0 THEN 0 ELSE 3^(n - 1) + 4 * GeometricNumerator(n - 1)

\* The sum of ATTENUATION^k for k in 0 .. n-1, exactly (n >= 1).
GeometricSum(n) == Dyadic(GeometricNumerator(n), -2 * (n - 1))

RECURSIVE RngAfter(_, _)
\* The generator state after n calls of gen().
RngAfter(state, n) == IF n = 0 THEN state ELSE RngAdvance(RngAfter(state, n - 1))

\* C2: the buffer has HEIGHT * WIDTH bytes; the quantizer stores once at
\* row * WIDTH + col for each cell, in row-major order, never outside the
\* buffer; at the end each byte is the quantized value of its cell.
RasterLayout ==
    /\ pc # "panic"
    /\ pc \in {"quantize", "done"} =>
         /\ DOMAIN writes = 0 .. (HEIGHT * WIDTH - 1)
         /\ DOMAIN buf = 0 .. (HEIGHT * WIDTH - 1)
         /\ \A row \in Rows, col \in Cols :
              LET n == row * WIDTH + col
                  stored == pc = "done" \/ Before(row, col)
              IN  /\ writes[n] = IF stored THEN 1 ELSE 0
                  /\ buf[n] = IF stored THEN Quantize(res[row][col]) ELSE 0

\* C2 happens: a 2 x 3 raster is finished and its last byte was stored.
RasterLayoutWitness ==
    /\ pc = "done"
    /\ HEIGHT = 2 /\ WIDTH = 3
    /\ writes[5] = 1
    /\ \E n \in DOMAIN buf : buf[n] # 128

\* C6: when the octave loop has ended scale_sum is the sum of
\* ATTENUATION^k for k in 0 .. OCTAVES-1, which is positive and is 1 for one
\* octave; every step of the normalisation divides its cell by that value.
NormalizationDivisor ==
    /\ [](AfterOctaves =>
            /\ scale_sum = GeometricSum(OCTAVES)
            /\ FLess(FZero, scale_sum)
            /\ (OCTAVES = 1 => scale_sum = F1))
    /\ [][pc = "normalize" =>
            res' = [res EXCEPT ![i][j] = FDiv(@, GeometricSum(OCTAVES))]]_vars

\* C6 happens: three octaves were summed and the field has been normalised.
NormalizationWitness ==
    /\ pc = "quantize"
    /\ OCTAVES = 3
    /\ scale_sum = Dyadic(37, -4)
    /\ \E row \in Rows, col \in Cols : res[row][col] # FZero

\* C7: in every octave cell_size = 2^level with level in 0 .. OCTAVES-1, the
\* grid has the indices 0..h by 0..w with h = ceil(HEIGHT / cell_size) and
\* w = ceil(WIDTH / cell_size), and for every pixel the corners perlin reads
\* are x0 = floor(row / cell_size) >= 0, y0 = floor(col / cell_size) >= 0,
\* x1 = x0 + 1 <= h and y1 = y0 + 1 <= w; no access is out of range.
LatticeBounds ==
    /\ pc # "panic"
    /\ InOctave =>
         /\ level \in 0 .. (OCTAVES - 1)
         /\ cell_size = 2^level
         /\ h * cell_size >= HEIGHT /\ (h - 1) * cell_size < HEIGHT
         /\ w * cell_size >= WIDTH /\ (w - 1) * cell_size < WIDTH
         /\ DOMAIN vecs = 0 .. h
         /\ \A gi \in 0 .. h : DOMAIN vecs[gi] = 0 .. w
         /\ \A row \in Rows, col \in Cols :
              LET c == Corners(GridCoord(row, cell_size), GridCoord(col, cell_size))
              IN  /\ c[1] = row \div cell_size /\ c[1] >= 0
                  /\ c[2] = col \div cell_size /\ c[2] >= 0
                  /\ c[3] = c[1] + 1 /\ c[3] <= h
                  /\ c[4] = c[2] + 1 /\ c[4] <= w

\* C7 happens: all the pixels of a raster 3 wide were sampled with
\* cell_size = 2, where the last column reads the last grid column (y1 = w).
LatticeBoundsWitness ==
    /\ pc = "octave_end"
    /\ cell_size = 2
    /\ WIDTH = 3
    /\ w = 2
    /\ contribs[HEIGHT - 1][2] >= 1

\* C8: while the grid is built the n-th sample of the octave is stored at
\* lattice point (n div (w+1), n mod (w+1)), as the sin_cos of the angle
\* sample * TAU, and nothing else of the grid changes; each lattice point
\* gets one sample; the octave consumes (h+1)*(w+1) samples, none of them
\* during the pixel sampling; no pixel is sampled before the grid is complete.
GridConsumesStream ==
    /\ [](InOctave =>
            /\ octave_draws = IF pc = "grid" THEN i * (w + 1) + j ELSE (h + 1) * (w + 1)
            /\ rng = RngAfter(RngNew(seed), draws)
            /\ \A gi \in 0 .. h, gj \in 0 .. w :
                 LET n == gi * (w + 1) + gj
                 IN  /\ gi = n \div (w + 1) /\ gj = n % (w + 1)
                     /\ lattice_draws[gi][gj] = IF n < octave_draws THEN <<n>> ELSE <<>>
                     /\ n >= octave_draws => vecs[gi][gj] = <<FZero, FZero>>
            /\ pc = "grid" =>
                 \A row \in Rows, col \in Cols : contribs[row][col] = Len(octave_log) - 1)
    /\ [][pc = "grid" =>
            LET n == octave_draws
            IN  vecs' =
                    [vecs EXCEPT ![n \div (w + 1)][n % (w + 1)] =
                        sin_cos(FMul(RngOutput(next_u32(RngAfter(RngNew(seed), draws + 1))),
                                     TAU))]]_vars
    /\ [][pc = "sample" => (rng' = rng /\ vecs' = vecs /\ draws' = draws)]_vars

\* C8 happens: the grid of a second or later octave, at least 2 x 3 lattice
\* points, is complete and its pixels are being sampled.
GridConsumesWitness ==
    /\ pc = "sample"
    /\ Len(octave_log) >= 2
    /\ h >= 1 /\ w >= 2
    /\ octave_draws = (h + 1) * (w + 1)
    /\ lattice_draws[h][w] = <<(h + 1) * (w + 1) - 1>>

\* C9: the k-th octave begun (k = 0, 1, ...) has level OCTAVES-1-k,
\* cell_size 2^level and amplitude ATTENUATION^k; cell sizes and amplitudes
\* strictly decrease, from 2^(OCTAVES-1) and 1.0; every cell has received one
\* contribution per octave completed, OCTAVES of them before normalisation.
OctaveSequencing ==
    LET n == Len(octave_log)
    IN  /\ n <= OCTAVES
        /\ levels_left = OCTAVES - n
        /\ \A k \in 0 .. (n - 1) :
             octave_log[k + 1] =
                 <<OCTAVES - 1 - k, 2^(OCTAVES - 1 - k), AttenuationPower(k)>>
        /\ n >= 1 => /\ octave_log[1][2] = 2^(OCTAVES - 1)
                     /\ octave_log[1][3] = F1
        /\ \A k \in 1 .. (n - 1) :
             /\ octave_log[k + 1][2] < octave_log[k][2]
             /\ FLess(octave_log[k + 1][3], octave_log[k][3])
        /\ InOctave => octave_log[n] = <<level, cell_size, scale>>
        /\ pc = "octave" => scale = AttenuationPower(n)
        /\ AfterOctaves => n = OCTAVES /\ cell_size = 1
        /\ pc # "idle" =>
             \A row \in Rows, col \in Cols :
                 contribs[row][col] =
                     IF pc = "grid" \/ (pc = "sample" /\ ~Before(row, col)) THEN n - 1 ELSE n

\* C9 happens: three octaves have been processed and normalisation begins.
OctaveSequencingWitness ==
    /\ pc = "normalize"
    /\ OCTAVES = 3
    /\ Len(octave_log) = 3
    /\ octave_log[3] = <<0, 1, Dyadic(9, -4)>>

\* C10: with cell_size = 1 every pixel's sample is exactly 0, so sampling
\* leaves the field as it is, while the octave still draws
\* (HEIGHT+1)*(WIDTH+1) samples and adds its amplitude to scale_sum; with one
\* octave every byte of the raster is 128.
FinestOctave ==
    /\ []((pc \in {"sample", "octave_end"} /\ cell_size = 1) =>
            /\ octave_draws = (HEIGHT + 1) * (WIDTH + 1)
            /\ \A row \in Rows, col \in Cols :
                 perlin(vecs, GridCoord(row, cell_size), GridCoord(col, cell_size)) = FZero)
    /\ []((pc = "done" /\ OCTAVES = 1) => \A n \in DOMAIN buf : buf[n] = 128)
    /\ [][(pc = "sample" /\ cell_size = 1) => res' = res]_vars
    /\ [][(pc = "octave_end" /\ cell_size = 1) =>
            /\ scale_sum' = FAdd(scale_sum, scale)
            /\ FLess(scale_sum, scale_sum')]_vars

\* C10 happens: the finest octave of a run of several octaves has sampled
\* all its pixels, over gradients that are not all alike, and the field
\* holds the non-zero sums of the coarser octaves.
FinestOctaveWitness ==
    /\ pc = "octave_end"
    /\ cell_size = 1
    /\ OCTAVES >= 2
    /\ vecs[0][0] # vecs[1][1]
    /\ \E row \in Rows, col \in Cols : res[row][col] # FZero
====
